---------------------------- MODULE Spec2Model ----------------------------
(***************************************************************************)
(* A model of scripts/scrambler.py: matching (the filter intersection),    *)
(* random_name (the namer) and main (the scramble and unscramble runs with *)
(* their log file).                                                        *)
(*                                                                         *)
(* A file name, a log line and every other Python str is a sequence of     *)
(* one-character strings, so that splitext, rstrip, split, "in" and        *)
(* format are computed character by character as Python computes them.     *)
(* A directory is a function from the names it holds to entries            *)
(* [kind, id, lines]: kind is "file" or "dir", id identifies the file      *)
(* itself (it survives a rename), lines is what readlines() would return.  *)
(* os.rename and os.remove have their POSIX meaning.                       *)
(***************************************************************************)
EXTENDS Integers, Sequences, FiniteSets, TLC

VARIABLES
    pc,        \* position of the run in main, or of the call of a function
    mode,      \* "scramble" | "unscramble" | "matching" | "random_name"
    args,      \* the parsed command line (argparse namespace)
    dir,       \* the working directory: name -> [kind, id, lines]
    dir0,      \* history: the directory when the first run started
    files,     \* main: the match set still to be iterated
    matched,   \* history: the match set as matching returned it
    logname,   \* main: the log file name in use
    logid,     \* id of the file behind the open log handle (0: none)
    logbuf,    \* lines written to the open log handle, flushed on close
    lines,     \* unscramble: the lines read from the log
    idx,       \* unscramble: index of the next entry line
    renames,   \* history: the os.rename calls of the scramble run that
               \* succeeded, <<src, dst>>
    undone,    \* history: the os.rename calls of the unscramble run that
               \* succeeded, <<src, dst>>
    first,     \* history: how the scramble run before this run ended
    logged,    \* history: the <<original, new>> pairs written to the log
    status,    \* exit status of the run (-1 while it runs)
    outcome,   \* how the run ended: "running", "ok", "aborted", ...
    result     \* the value matching or random_name returned, when called alone

vars == <<pc, mode, args, dir, dir0, files, matched, logname, logid, logbuf,
          lines, idx, renames, undone, first, logged, status, outcome, result>>

\* A regular expression argument: None, or a pattern (see re_match)
None == [none |-> TRUE, pat |-> <<>>]

Re(p) == [none |-> FALSE, pat |-> p]

(***************************************************************************)
(* Python str and os.path helpers.                                         *)
(***************************************************************************)

\* seq[from:] of Python
Drop(s, n) == SubSeq(s, n + 1, Len(s))

\* s.startswith(p)
StartsWith(s, p) == Len(p) <= Len(s) /\ SubSeq(s, 1, Len(p)) = p

\* `sub in s` for two str
Contains(s, sub) ==
    \E i \in 1..(Len(s) + 1) :
        i + Len(sub) - 1 <= Len(s) /\ SubSeq(s, i, i + Len(sub) - 1) = sub

\* s.rfind(c) + 1 (0 when c does not occur)
RFind(s, c) ==
    LET hits == {i \in 1..Len(s) : s[i] = c}
    IN  IF hits = {} THEN 0 ELSE CHOOSE i \in hits : \A j \in hits : j <= i

\* os.path.splitext for a plain name (no directory separator): the
\* extension starts at the last dot, unless only dots precede that dot.
splitext(p) ==
    LET dot == RFind(p, ".")
    IN  IF dot > 0 /\ \E k \in 1..(dot - 1) : p[k] # "."
        THEN <<SubSeq(p, 1, dot - 1), Drop(p, dot - 1)>>
        ELSE <<p, <<>>>>

Whitespace == {" ", "\n", "\t", "\r"}

\* str.rstrip() with no argument: trailing whitespace removed
RECURSIVE rstrip(_)
rstrip(s) ==
    IF s # <<>> /\ s[Len(s)] \in Whitespace
    THEN rstrip(SubSeq(s, 1, Len(s) - 1))
    ELSE s

\* position of the first occurrence of sep in s (0: none)
Find(s, sep) ==
    LET hits == {i \in 1..Len(s) :
                    i + Len(sep) - 1 <= Len(s)
                    /\ SubSeq(s, i, i + Len(sep) - 1) = sep}
    IN  IF hits = {} THEN 0 ELSE CHOOSE i \in hits : \A j \in hits : i <= j

\* str.split(sep): the list of the parts between the occurrences of sep
RECURSIVE split(_, _)
split(s, sep) ==
    LET at == Find(s, sep)
    IN  IF at = 0 THEN <<s>>
        ELSE <<SubSeq(s, 1, at - 1)>> \o split(Drop(s, at + Len(sep) - 1), sep)

\* the elements of a list
Range(s) == {s[i] : i \in 1..Len(s)}

(***************************************************************************)
(* re: a compiled pattern is a sequence of character classes (sets of      *)
(* characters), enough for patterns such as file[0-9]{2}.  match() matches *)
(* at the start of the string and does not have to reach its end.          *)
(***************************************************************************)
re_match(regex, name) ==
    /\ Len(regex.pat) <= Len(name)
    /\ \A i \in 1..Len(regex.pat) : name[i] \in regex.pat[i]

(***************************************************************************)
(* matching(location, extensions, substrings, regex)                       *)
(***************************************************************************)

\* line 92: a period is put before an extension filter that has none
NormExt(ext) == IF StartsWith(ext, <<".">>) THEN ext ELSE <<".">> \o ext

NormExtensions(extensions) == {NormExt(extensions[i]) : i \in 1..Len(extensions)}

\* lines 95-98: os.listdir, then the entries os.path.isfile accepts
all_files(location) == {n \in DOMAIN location : location[n].kind = "file"}

ReservedExt == {<<".", "p", "y">>, <<".", "p", "y", "c">>, <<".", "l", "o", "g">>}

\* Candidates without the test of line 104
Candidates_reserved(location) ==
    {name \in all_files(location) : splitext(name)[1][1] # "."}

\* lines 101-108: not .py, .pyc or .log, and not hidden
Candidates(location) ==
    {name \in all_files(location) :
        /\ splitext(name)[2] \notin ReservedExt
        /\ splitext(name)[1][1] # "."}

\* ext_matches that lets every file pass
ext_matches_all(fs, extensions) == fs

\* lines 111-114 and 127-128
ext_matches(fs, extensions) ==
    (IF extensions = <<>> THEN fs ELSE {})
        \cup {name \in fs : splitext(name)[2] \in NormExtensions(extensions)}

\* sub_matches asking for every substring instead of any
sub_matches_every(fs, substrings) ==
    {name \in fs :
        \A i \in 1..Len(substrings) :
            Contains(splitext(name)[1], substrings[i])}

\* lines 115-118 and 130-132
sub_matches(fs, substrings) ==
    (IF substrings = <<>> THEN fs ELSE {})
        \cup {name \in fs :
                \E i \in 1..Len(substrings) :
                    Contains(splitext(name)[1], substrings[i])}

\* lines 119-122 and 134-136
regex_matches(fs, regex) ==
    (IF regex = None THEN fs ELSE {})
        \cup {name \in fs : regex # None /\ re_match(regex, name)}

\* line 138
matching(location, extensions, substrings, regex) ==
    LET fs == Candidates(location)
    IN  ext_matches(fs, extensions)
            \cap sub_matches(fs, substrings)
            \cap regex_matches(fs, regex)

(***************************************************************************)
(* random_name(name, length=8, chars=string.ascii_uppercase+string.digits) *)
(* The outcomes of random.choice are an input: rnd[k] is the index in      *)
(* chars that the k-th call returns.                                       *)
(***************************************************************************)
length == 8

chars == <<"A", "B", "C", "D", "E", "F", "G", "H", "I", "J", "K", "L", "M",
           "N", "O", "P", "Q", "R", "S", "T", "U", "V", "W", "X", "Y", "Z",
           "0", "1", "2", "3", "4", "5", "6", "7", "8", "9">>

\* lines 144-146: r_name after k rounds of the loop
RECURSIVE r_name(_, _, _)
r_name(k, cs, rnd) ==
    IF k = 0 THEN <<>> ELSE r_name(k - 1, cs, rnd) \o <<cs[rnd[k]]>>

\* lines 143 and 147
random_name(name, len, cs, rnd) == r_name(len, cs, rnd) \o splitext(name)[2]

(***************************************************************************)
(* The file system: os.path.isfile, open(.., 'w') and close, os.rename and *)
(* os.remove on a directory d.                                             *)
(***************************************************************************)
File(id, ls) == [kind |-> "file", id |-> id, lines |-> ls]

isfile(d, name) == name \in DOMAIN d /\ d[name].kind = "file"

\* an id no entry of d has
FreshId(d) ==
    LET ids == {d[n].id : n \in DOMAIN d}
    IN  IF ids = {} THEN 1 ELSE 1 + (CHOOSE i \in ids : \A j \in ids : j <= i)

\* the entry of src now stands under dst; what stood under dst is gone
Move(d, src, dst) ==
    [n \in (DOMAIN d \ {src}) \cup {dst} |-> IF n = dst THEN d[src] ELSE d[n]]

\* os.rename(src, dst): [ok, dir].  It raises (ok = FALSE) when src does not
\* exist, when dst is empty, and when dst exists unless both are regular
\* files, in which case dst is replaced silently.
rename(d, src, dst) ==
    IF src \notin DOMAIN d \/ dst = <<>>
    THEN [ok |-> FALSE, dir |-> d]
    ELSE IF dst \notin DOMAIN d
    THEN [ok |-> TRUE, dir |-> Move(d, src, dst)]
    ELSE IF src = dst
    THEN [ok |-> TRUE, dir |-> d]
    ELSE IF d[src].kind = "file" /\ d[dst].kind = "file"
    THEN [ok |-> TRUE, dir |-> Move(d, src, dst)]
    ELSE [ok |-> FALSE, dir |-> d]

\* os.remove(name): [ok, dir]; it raises unless name is a file
remove(d, name) ==
    IF isfile(d, name)
    THEN [ok |-> TRUE, dir |-> [n \in DOMAIN d \ {name} |-> d[n]]]
    ELSE [ok |-> FALSE, dir |-> d]

\* open(name, 'w'): [ok, dir, id].  An existing file is truncated, a missing
\* one is created, a directory raises.
open_w(d, name) ==
    IF name \in DOMAIN d
    THEN IF d[name].kind = "file"
         THEN [ok |-> TRUE, id |-> d[name].id,
               dir |-> [d EXCEPT ![name] = File(d[name].id, <<>>)]]
         ELSE [ok |-> FALSE, id |-> 0, dir |-> d]
    ELSE [ok |-> TRUE, id |-> FreshId(d),
          dir |-> [n \in DOMAIN d \cup {name} |->
                      IF n = name THEN File(FreshId(d), <<>>) ELSE d[n]]]

\* closing the handle writes its buffer to the file it was opened on, which
\* a rename may have moved or replaced in the meantime
close(d, id, buf) ==
    [n \in DOMAIN d |-> IF d[n].id = id THEN File(id, buf) ELSE d[n]]

(***************************************************************************)
(* The log format, lines 200, 203, 216 and 220.                            *)
(***************************************************************************)
Header == <<"S", "c", "r", "a", "m", "b", "l", "e", "r", ".", "p", "y", " ", "L", "o", "g", "\n">>

Arrow == <<" ", "-", "-", ">", " ">>

DotLog == <<".", "l", "o", "g">>

\* EntryLine with the two names the other way round
EntryLine_swapped(each, new) == new \o Arrow \o each \o <<"\n">>

\* '{0} --> {1}\n'.format(each, new)
EntryLine(each, new) == each \o Arrow \o new \o <<"\n">>

\* ParseLine that leaves the line break on the line
ParseLine_nostrip(line) == split(line, Arrow)

\* line.rstrip().split(' --> ')
ParseLine(line) == split(rstrip(line), Arrow)

(***************************************************************************)
(* Inputs: the names, directories and command lines the runs start from.   *)
(***************************************************************************)
N_a == <<"a", ".", "t", "x", "t">>

N_b == <<"b", ".", "t", "x", "t">>

N_c == <<"c", ".", "d", "a", "t">>

N_A == <<"A", "A", "A", "A", "A", "A", "A", "A", ".", "t", "x", "t">>

N_B == <<"B", "B", "B", "B", "B", "B", "B", "B", ".", "t", "x", "t">>

N_hidden == <<".", "h", ".", "t", "x", "t">>

N_py == <<"s", ".", "p", "y">>

N_space == <<"e", ".", "t", "x", "t", " ">>

N_arrow == <<"x", " ", "-", "-", ">", " ", "y">>

N_wlog == <<"w", ".", "l", "o", "g">>

N_nolog == <<"m", ".", "l", "o", "g">>

N_reply == <<"n", ".", "t", "x", "t">>

N_file1 == <<"f", "i", "l", "e", "1", ".", "t", "x", "t">>

N_file2 == <<"f", "i", "l", "e", "2", ".", "t", "x", "t">>

N_file01j == <<"f", "i", "l", "e", "0", "1", ".", "j", "a", "v", "a">>

N_file01p == <<"f", "i", "l", "e", "0", "1", ".", "p", "s">>

N_file11 == <<"f", "i", "l", "e", "1", "1", ".", "t", "x", "t">>

N_script == <<"s", "c", "r", "i", "p", "t", ".", "p", "y">>

N_scriptc == <<"s", "c", "r", "i", "p", "t", ".", "p", "y", "c">>

N_loglog == <<"l", "o", "g", ".", "l", "o", "g">>

N_dotfile == <<".", "f", "i", "l", "e", "9", ".", "t", "x", "t">>

N_subdir == <<"f", "i", "l", "e", "1", "2", ".", "t", "x", "t">>

N_noext == <<"R", "E", "A", "D", "M", "E">>

N_test == <<"t", "e", "s", "t", ".", "t", "x", "t">>

\* os.path.split(os.getcwd())[1]: the last segment of the target directory
Cwd == <<"d">>

\* '{0}_scramble.log'.format(..), line 183
DefaultLog == Cwd \o <<"_", "s", "c", "r", "a", "m", "b", "l", "e", ".", "l", "o", "g">>

Digits == {"0", "1", "2", "3", "4", "5", "6", "7", "8", "9"}

\* the pattern file[0-9]{2} of test_matching_regex
RE_file2d == Re(<<{"f"}, {"i"}, {"l"}, {"e"}, Digits, Digits>>)

\* the pattern file1, which is also the start of file11.txt
RE_file1 == Re(<<{"f"}, {"i"}, {"l"}, {"e"}, {"1"}>>)

\* the pattern ile, which occurs in the names but not at their start
RE_ile == Re(<<{"i"}, {"l"}, {"e"}>>)

Entry(name, kind, ls) == [name |-> name, kind |-> kind, lines |-> ls]

\* the directory holding the entries S of a pool; entry i is the file i
DirOf(pool, S) ==
    [n \in {pool[i].name : i \in S} |->
        LET i == CHOOSE j \in S : pool[j].name = n
        IN  [kind |-> pool[i].kind, id |-> i, lines |-> pool[i].lines]]

\* the sets of at most max entries of a pool with different names
Picks(pool, max) ==
    {S \in SUBSET (1..Len(pool)) :
        /\ Cardinality(S) <= max
        /\ \A i, j \in S : pool[i].name = pool[j].name => i = j}

\* the directory of tests/resources that test_scrambler.py lists, with a
\* hidden file and a subdirectory
MatchPool ==
    << Entry(N_file1, "file", <<>>), Entry(N_file2, "file", <<>>),
       Entry(N_file01j, "file", <<>>), Entry(N_file01p, "file", <<>>),
       Entry(N_file11, "file", <<>>), Entry(N_script, "file", <<>>),
       Entry(N_scriptc, "file", <<>>), Entry(N_loglog, "file", <<>>),
       Entry(N_dotfile, "file", <<>>), Entry(N_subdir, "dir", <<>>),
       Entry(N_noext, "file", <<>>) >>

MatchExtensions ==
    { <<>>, <<<<"t", "x", "t">>>>, <<<<".", "t", "x", "t">>>>,
      <<<<"j", "a", "v", "a">>>>, <<<<"p", "y">>, <<"l", "o", "g">>>>,
      <<<<"p", "s">>, <<".", "t", "x", "t">>>> }

MatchSubstrings ==
    { <<>>, <<<<"f", "i", "l", "e", "0">>>>, <<<<"f", "i", "l", "e">>>>,
      <<<<"2">>, <<"1", "1">>>>, <<<<"s", "c", "r">>, <<"l", "o", "g">>>> }

MatchRegex == {None, RE_file2d, RE_file1, RE_ile, Re(<<>>)}

\* a directory to scramble
ScramblePool ==
    << Entry(N_a, "file", <<>>), Entry(N_b, "file", <<>>),
       Entry(N_c, "file", <<>>), Entry(N_A, "file", <<>>),
       Entry(N_A, "dir", <<>>), Entry(N_hidden, "file", <<>>),
       Entry(N_py, "file", <<>>), Entry(N_space, "file", <<>>),
       Entry(N_arrow, "file", <<>>),
       Entry(DefaultLog, "file", <<Header, EntryLine(N_c, N_B)>>) >>

\* a directory to unscramble, with a log w.log: a good one, one with another
\* first line, one whose first entry names the log itself, one with an entry
\* that has no separator, an empty one
UnscramblePool ==
    << Entry(N_A, "file", <<>>), Entry(N_B, "file", <<>>),
       Entry(N_a, "file", <<>>),
       Entry(N_wlog, "file", <<Header, EntryLine(N_a, N_A), EntryLine(N_b, N_B)>>),
       Entry(N_wlog, "file",
             <<SubSeq(Header, 1, Len(Header) - 1), EntryLine(N_a, N_A)>>),
       Entry(N_wlog, "file", <<Header, EntryLine(N_c, N_wlog), EntryLine(N_b, N_B)>>),
       Entry(N_wlog, "file", <<Header, N_a \o <<" ">> \o N_A \o <<"\n">>>>),
       Entry(N_wlog, "file", <<>>),
       Entry(N_wlog, "dir", <<>>) >>

\* what the operator types at the prompt of line 188
Responses == {<<>>, DefaultLog, N_reply}

\* the outcomes of the eight random.choice calls of one random_name call
\* that a scramble run draws from: eight times the i-th character
DrawChoices == {1, 2, 3}

RandomDraws == {[k \in 1..length |-> i] : i \in DrawChoices}

MaxEntries == 3

MaxChoice == 2

NoArgs ==
    [extension |-> <<>>, substring |-> <<>>, regex |-> None, log |-> <<>>,
     unscramble |-> <<>>, name |-> <<>>]

(***************************************************************************)
(* The runs.                                                               *)
(***************************************************************************)
Idle ==
    /\ files = {} /\ matched = {} /\ logname = <<>> /\ logid = 0
    /\ logbuf = <<>> /\ lines = <<>> /\ idx = 0 /\ renames = <<>>
    /\ undone = <<>> /\ first = "none" /\ logged = <<>> /\ status = -1
    /\ outcome = "running" /\ result = {}

\* scrambler.py [--extension ..] [--log ..] in a directory
InitScramble ==
    /\ mode = "scramble" /\ pc = "matching"
    /\ \E S \in Picks(ScramblePool, MaxEntries) : dir = DirOf(ScramblePool, S)
    /\ \E e \in {<<>>, <<<<"t", "x", "t">>>>}, l \in {<<>>, N_B} :
            args = [NoArgs EXCEPT !.extension = e, !.log = l]
    /\ dir0 = dir
    /\ Idle

\* scrambler.py --unscramble=<log> in a directory
InitUnscramble ==
    /\ mode = "unscramble" /\ pc = "u_start"
    /\ \E S \in Picks(UnscramblePool, MaxEntries) : dir = DirOf(UnscramblePool, S)
    /\ \E u \in {N_wlog, N_nolog} : args = [NoArgs EXCEPT !.unscramble = u]
    /\ dir0 = dir
    /\ Idle

Init == InitScramble \/ InitUnscramble

\* the end of a run: sys.exit(code), an uncaught exception (status 1) or
\* the end of main (status 0)
Exit(code, how) == pc' = "exit" /\ status' = code /\ outcome' = how

\* lines 175-176
Match ==
    /\ pc = "matching" /\ mode = "scramble"
    /\ files' = matching(dir, args.extension, args.substring, args.regex)
    /\ matched' = files'
    /\ pc' = "logname"
    /\ UNCHANGED <<mode, args, dir, dir0, logname, logid, logbuf, lines, idx,
                   renames, undone, first, logged, status, outcome, result>>

\* lines 178-183
SetLogname ==
    /\ pc = "logname"
    /\ logname' = IF args.log # <<>> THEN args.log ELSE DefaultLog
    /\ pc' = "logcheck"
    /\ UNCHANGED <<mode, args, dir, dir0, files, matched, logid, logbuf, lines,
                   idx, renames, undone, first, logged, status, outcome, result>>

\* lines 186-195: one round of the loop, with the operator's answer raw
Prompt ==
    /\ pc = "logcheck"
    /\ isfile(dir, logname)
    /\ \E raw \in Responses :
         IF raw = <<>>
         THEN Exit(0, "aborted") /\ UNCHANGED logname
         ELSE /\ logname' = splitext(raw)[1] \o DotLog
              /\ UNCHANGED <<pc, status, outcome>>
    /\ UNCHANGED <<mode, args, dir, dir0, files, matched, logid, logbuf, lines,
                   idx, renames, undone, first, logged, result>>

\* OpenLog without the loop of lines 186-195 before it
OpenLog_unguarded ==
    /\ pc = "logcheck"
    /\ LET o == open_w(dir, logname)
       IN  IF o.ok
           THEN /\ dir' = o.dir
                /\ logid' = o.id
                /\ logbuf' = <<Header>>
                /\ pc' = "loop"
                /\ UNCHANGED <<status, outcome>>
           ELSE /\ Exit(1, "error")
                /\ UNCHANGED <<dir, logid, logbuf>>
    /\ UNCHANGED <<mode, args, dir0, files, matched, logname, lines, idx,
                   renames, undone, first, logged, result>>

\* lines 186 (the loop ends) and 197-200
OpenLog ==
    /\ pc = "logcheck"
    /\ ~ isfile(dir, logname)
    /\ LET o == open_w(dir, logname)
       IN  IF o.ok
           THEN /\ dir' = o.dir
                /\ logid' = o.id
                /\ logbuf' = <<Header>>
                /\ pc' = "loop"
                /\ UNCHANGED <<status, outcome>>
           ELSE /\ Exit(1, "error")
                /\ UNCHANGED <<dir, logid, logbuf>>
    /\ UNCHANGED <<mode, args, dir0, files, matched, logname, lines, idx,
                   renames, undone, first, logged, result>>

\* lines 201-204: one round of the loop, for any file of the set (a set has no
\* order of its own).  When os.rename raises, the with statement closes the
\* log and the exception ends the run.
ScrambleOne ==
    /\ pc = "loop"
    /\ \E each \in files, rnd \in RandomDraws :
         LET new == random_name(each, length, chars, rnd)
             r   == rename(dir, each, new)
         IN  /\ logbuf' = Append(logbuf, EntryLine(each, new))
             /\ logged' = Append(logged, <<each, new>>)
             /\ IF r.ok
                THEN /\ dir' = r.dir
                     /\ renames' = Append(renames, <<each, new>>)
                     /\ files' = files \ {each}
                     /\ UNCHANGED <<pc, status, outcome>>
                ELSE /\ dir' = close(dir, logid, logbuf')
                     /\ Exit(1, "error")
                     /\ UNCHANGED <<renames, files>>
    /\ UNCHANGED <<mode, args, dir0, matched, logname, logid, lines, idx,
                   undone, first, result>>

\* line 199: the with statement closes the log when the loop has ended
CloseLog ==
    /\ pc = "loop"
    /\ files = {}
    /\ dir' = close(dir, logid, logbuf)
    /\ Exit(0, "ok")
    /\ UNCHANGED <<mode, args, dir0, files, matched, logname, logid, logbuf,
                   lines, idx, renames, undone, first, logged, result>>

\* the operator runs scrambler.py --unscramble=<logname> after a scramble run
\* that got as far as opening its log
Unscramble ==
    /\ pc = "exit" /\ mode = "scramble"
    /\ outcome \in {"ok", "error"} /\ logid # 0
    /\ mode' = "unscramble"
    /\ args' = [args EXCEPT !.unscramble = logname]
    /\ first' = outcome
    /\ pc' = "u_start" /\ status' = -1 /\ outcome' = "running"
    /\ UNCHANGED <<dir, dir0, files, matched, logname, logid, logbuf, lines,
                   idx, renames, undone, logged, result>>

\* lines 208-215 and 223-224
ReadLog ==
    /\ pc = "u_start"
    /\ IF isfile(dir, args.unscramble)
       THEN /\ lines' = dir[args.unscramble].lines
            /\ pc' = "u_header"
            /\ UNCHANGED <<status, outcome>>
       ELSE /\ Exit(0, "notfound")
            /\ UNCHANGED lines
    /\ UNCHANGED <<mode, args, dir, dir0, files, matched, logname, logid,
                   logbuf, idx, renames, undone, first, logged, result>>

\* CheckHeader that warns about a wrong first line and goes on
CheckHeader_lenient ==
    /\ pc = "u_header"
    /\ IF lines = <<>>
       THEN Exit(1, "error") /\ UNCHANGED idx
       ELSE pc' = "u_loop" /\ idx' = 2 /\ UNCHANGED <<status, outcome>>
    /\ UNCHANGED <<mode, args, dir, dir0, files, matched, logname, logid,
                   logbuf, lines, renames, undone, first, logged, result>>

\* lines 216-218; lines[0] of an empty list raises
CheckHeader ==
    /\ pc = "u_header"
    /\ IF lines = <<>>
       THEN Exit(1, "error") /\ UNCHANGED idx
       ELSE IF lines[1] # Header
       THEN Exit(1, "badheader") /\ UNCHANGED idx
       ELSE pc' = "u_loop" /\ idx' = 2 /\ UNCHANGED <<status, outcome>>
    /\ UNCHANGED <<mode, args, dir, dir0, files, matched, logname, logid,
                   logbuf, lines, renames, undone, first, logged, result>>

\* lines 220-221 for one line: the unpacking raises unless the line has two
\* parts, and os.rename may raise.  [ok, dir, src, dst]
UndoEntry(d, line) ==
    LET parts == ParseLine(line)
    IN  IF Len(parts) # 2
        THEN [ok |-> FALSE, dir |-> d, src |-> <<>>, dst |-> <<>>]
        ELSE LET r == rename(d, parts[2], parts[1])
             IN  [ok |-> r.ok, dir |-> r.dir, src |-> parts[2], dst |-> parts[1]]

\* UnscrambleOne that skips an entry it cannot undo
UnscrambleOne_swallow ==
    /\ pc = "u_loop"
    /\ idx <= Len(lines)
    /\ LET u == UndoEntry(dir, lines[idx])
       IN  /\ dir' = u.dir
           /\ undone' = IF u.ok THEN Append(undone, <<u.src, u.dst>>) ELSE undone
           /\ idx' = idx + 1
           /\ UNCHANGED <<pc, status, outcome>>
    /\ UNCHANGED <<mode, args, dir0, files, matched, logname, logid, logbuf,
                   lines, renames, first, logged, result>>

\* lines 219-221: one round of the loop; an exception ends the run
UnscrambleOne ==
    /\ pc = "u_loop"
    /\ idx <= Len(lines)
    /\ LET u == UndoEntry(dir, lines[idx])
       IN  IF u.ok
           THEN /\ dir' = u.dir
                /\ undone' = Append(undone, <<u.src, u.dst>>)
                /\ idx' = idx + 1
                /\ UNCHANGED <<pc, status, outcome>>
           ELSE /\ Exit(1, "error")
                /\ UNCHANGED <<dir, undone, idx>>
    /\ UNCHANGED <<mode, args, dir0, files, matched, logname, logid, logbuf,
                   lines, renames, first, logged, result>>

\* lines 219-221, the whole loop over the entry lines ls: [ok, dir]
RECURSIVE Replay(_, _)
Replay(d, ls) ==
    IF ls = <<>>
    THEN [ok |-> TRUE, dir |-> d]
    ELSE LET u == UndoEntry(d, Head(ls))
         IN  IF u.ok THEN Replay(u.dir, Tail(ls)) ELSE [ok |-> FALSE, dir |-> u.dir]

\* line 222
RemoveLog ==
    /\ pc = "u_loop"
    /\ idx > Len(lines)
    /\ LET r == remove(dir, args.unscramble)
       IN  IF r.ok
           THEN dir' = r.dir /\ Exit(0, "ok")
           ELSE Exit(1, "error") /\ UNCHANGED dir
    /\ UNCHANGED <<mode, args, dir0, files, matched, logname, logid, logbuf,
                   lines, idx, renames, undone, first, logged, result>>

Next ==
    \/ Match
    \/ SetLogname
    \/ Prompt
    \/ OpenLog
    \/ ScrambleOne
    \/ CloseLog
    \/ Unscramble
    \/ ReadLog
    \/ CheckHeader
    \/ UnscrambleOne
    \/ RemoveLog

Spec == Init /\ [][Next]_vars

(***************************************************************************)
(* matching on its own: any directory of the pool, any filters.            *)
(***************************************************************************)
InitMatch ==
    /\ mode = "matching" /\ pc = "call"
    /\ \E S \in SUBSET (1..Len(MatchPool)) : dir = DirOf(MatchPool, S)
    /\ \E e \in MatchExtensions, s \in MatchSubstrings, r \in MatchRegex :
            args = [NoArgs EXCEPT !.extension = e, !.substring = s, !.regex = r]
    /\ dir0 = dir
    /\ Idle

CallMatching ==
    /\ pc = "call" /\ mode = "matching"
    /\ result' = matching(dir, args.extension, args.substring, args.regex)
    /\ pc' = "returned"
    /\ UNCHANGED <<mode, args, dir, dir0, files, matched, logname, logid,
                   logbuf, lines, idx, renames, undone, first, logged, status,
                   outcome>>

NextMatch == CallMatching

SpecMatch == InitMatch /\ [][NextMatch]_vars

(***************************************************************************)
(* random_name on its own: any name of the pool, any outcome of the eight  *)
(* random.choice calls among the first MaxChoice characters.               *)
(***************************************************************************)
InitName ==
    /\ mode = "random_name" /\ pc = "call"
    /\ \E n \in {N_test, N_noext, N_hidden, N_A} : args = [NoArgs EXCEPT !.name = n]
    /\ dir = <<>> /\ dir0 = dir
    /\ Idle

CallRandomName ==
    /\ pc = "call" /\ mode = "random_name"
    /\ \E rnd \in [1..length -> 1..MaxChoice] :
            result' = random_name(args.name, length, chars, rnd)
    /\ pc' = "returned"
    /\ UNCHANGED <<mode, args, dir, dir0, files, matched, logname, logid,
                   logbuf, lines, idx, renames, undone, first, logged, status,
                   outcome>>

NextName == CallRandomName

SpecName == InitName /\ [][NextName]_vars

(***************************************************************************)
(* Properties of matching, under SpecMatch.                                *)
(***************************************************************************)
Returned == pc = "returned"

\* the extension and the base name of a file name
ExtOf(f) == splitext(f)[2]

BaseOf(f) == splitext(f)[1]

\* a regular file that is not hidden and has no reserved extension
IsCandidate(f) ==
    /\ f \in DOMAIN dir
    /\ dir[f].kind = "file"
    /\ f[1] # "."
    /\ ExtOf(f) \notin ReservedExt

PassesExtension(f) ==
    \/ Len(args.extension) = 0
    \/ \E i \in 1..Len(args.extension) :
         LET e == args.extension[i]
         IN  \/ e # <<>> /\ e[1] = "." /\ ExtOf(f) = e
             \/ (e = <<>> \/ e[1] # ".") /\ ExtOf(f) = <<".">> \o e

PassesSubstring(f) ==
    \/ Len(args.substring) = 0
    \/ \E i \in 1..Len(args.substring) :
         \E a, b \in 0..Len(BaseOf(f)) :
            a <= b /\ SubSeq(BaseOf(f), a + 1, b) = args.substring[i]

PassesRegex(f) ==
    \/ args.regex.none
    \/ \E k \in 0..Len(f) :
         /\ k = Len(args.regex.pat)
         /\ \A i \in 1..k : f[i] \in args.regex.pat[i]

\* C2: matching returns exactly the candidate files (regular, not hidden, no
\* reserved extension) that pass the extension filter (no filter given, or the
\* extension equals a filter with its period put in front), and the substring
\* filter (none given, or some substring occurs in the base name), and the
\* regex filter (absent, or the pattern matches at the start of the name).
C2_MatchingIsIntersection ==
    Returned =>
        result = {f \in DOMAIN dir :
                    /\ IsCandidate(f)
                    /\ PassesExtension(f)
                    /\ PassesSubstring(f)
                    /\ PassesRegex(f)}

\* the case of test_matching_mix: the five files, extension txt, substring
\* file, regex file[0-9]{2}, and file11.txt alone comes back
C2_Witness ==
    /\ Returned
    /\ {N_file1, N_file2, N_file01j, N_file01p, N_file11} \subseteq DOMAIN dir
    /\ args.extension = <<<<"t", "x", "t">>>>
    /\ args.substring = <<<<"f", "i", "l", "e">>>>
    /\ args.regex = RE_file2d
    /\ result = {N_file11}

\* C3: whatever the directory and the filters, matching returns no
\* subdirectory, no name that begins with a period and no name whose
\* extension is .py, .pyc or .log.
C3_NeverExcluded ==
    Returned =>
        \A n \in result :
            /\ n \in DOMAIN dir
            /\ dir[n].kind # "dir"
            /\ n[1] # "."
            /\ ExtOf(n) \notin ReservedExt

\* filters that name py and log, over a directory that holds script.py,
\* log.log, a hidden file and a subdirectory
C3_Witness ==
    /\ Returned
    /\ args.extension = <<<<"p", "y">>, <<"l", "o", "g">>>>
    /\ args.substring = <<<<"s", "c", "r">>, <<"l", "o", "g">>>>
    /\ {N_script, N_loglog, N_dotfile, N_subdir} \subseteq DOMAIN dir
    /\ result = {}

(***************************************************************************)
(* Properties of random_name, under SpecName.                              *)
(***************************************************************************)

\* C4: random_name('test.txt') is 14 characters long: 8 characters out of the
\* uppercase letters and digits, then '.txt', and it is not 'test.txt'.
C4_RandomName14 ==
    (Returned /\ args.name = N_test) =>
        /\ Len(result) = 14
        /\ \A i \in 1..8 : result[i] \in Range(chars)
        /\ Drop(result, 8) = <<".", "t", "x", "t">>
        /\ result # N_test

(***************************************************************************)
(* Properties of the scramble and unscramble runs, under Spec.             *)
(***************************************************************************)
Ids(d) == {d[n].id : n \in DOMAIN d}

\* the scramble run has ended and every matched file was renamed
ScrambleDone == mode = "scramble" /\ pc = "exit" /\ outcome = "ok"

\* the unscramble run on the log of a completed scramble run has ended
RoundTripDone == mode = "unscramble" /\ first = "ok" /\ pc = "exit"

\* every matched file is back under the name it had
Restored(d) == \A n \in matched : n \in DOMAIN d /\ d[n] = dir0[n]

\* the generated names are new: no two are equal, and none is a name the
\* directory held before the run or the name of the log
FreshNames ==
    /\ \A i, j \in 1..Len(logged) : logged[i][2] = logged[j][2] => i = j
    /\ \A i \in 1..Len(logged) :
         logged[i][2] \notin DOMAIN dir0 /\ logged[i][2] # logname

\* a name the log format can hold: no ' --> ' in it, no line break, no
\* whitespace at its end
Plain(n) ==
    /\ ~ Contains(n, Arrow)
    /\ \A i \in 1..Len(n) : n[i] \notin {"\n", "\r"}
    /\ n[Len(n)] \notin Whitespace

PlainNames == \A n \in matched : Plain(n)

C5_LogSecuredFirst ==
    mode = "scramble" =>
        /\ pc \in {"matching", "logname", "logcheck"} =>
                dir = dir0 /\ renames = <<>> /\ logid = 0
        /\ outcome = "aborted" =>
                dir = dir0 /\ renames = <<>> /\ logid = 0 /\ status = 0
        /\ (pc = "loop" \/ renames # <<>>) =>
                /\ logid # 0
                /\ logname \notin DOMAIN dir0
                /\ logid \notin Ids(dir0)

\* the operator was asked, answered with a new name, and files were renamed
\* under the new log
C5_Witness ==
    /\ mode = "scramble"
    /\ DefaultLog \in DOMAIN dir0
    /\ logname = splitext(N_reply)[1] \o DotLog
    /\ renames # <<>>

\* the operator was asked and gave up
C5_WitnessAbort == mode = "scramble" /\ outcome = "aborted" /\ matched # {}

\* the unscramble run has read a log whose first line is not the header
BadHeaderRead ==
    /\ mode = "unscramble"
    /\ pc \in {"u_header", "u_loop", "exit"}
    /\ outcome # "notfound"
    /\ (lines = <<>> \/ lines[1] # Header)

\* C6: unscrambling a log whose first line is not exactly the header renames
\* nothing, leaves the log where it is, and ends with a status that is not 0,
\* whatever lines follow.
C6_BadHeaderNoRename ==
    BadHeaderRead =>
        /\ undone = <<>>
        /\ pc # "u_loop"
        /\ isfile(dir, args.unscramble)
        /\ first = "none" => dir = dir0
        /\ pc = "exit" => status = 1

\* the log has the header without its line break, and an entry that could be
\* undone
C6_Witness ==
    /\ BadHeaderRead
    /\ pc = "exit"
    /\ Len(lines) = 2
    /\ lines[2] = EntryLine(N_a, N_A)
    /\ N_A \in DOMAIN dir

\* C7: once the scramble log is closed, every entry in it stands for a rename
\* that was done.
C7_ClosedLogEntriesRenamed ==
    (mode = "scramble" /\ pc = "exit" /\ logid # 0) =>
        \A n \in DOMAIN dir :
            dir[n].id = logid =>
                \A i \in 2..Len(dir[n].lines) :
                    \E k \in 1..Len(renames) :
                        dir[n].lines[i] = EntryLine(renames[k][1], renames[k][2])

\* an entry of the log names the log itself
SelfNaming ==
    \E i \in 2..Len(lines) : args.unscramble \in Range(ParseLine(lines[i]))

\* the unscramble run is past the header of its log
Reversing == mode = "unscramble" /\ pc \in {"u_loop", "exit"} /\ idx >= 2

C8_Body ==
    /\ (pc = "exit" /\ outcome = "ok") =>
            /\ idx = Len(lines) + 1
            /\ Len(undone) = Len(lines) - 1
            /\ args.unscramble \notin DOMAIN dir
    /\ (pc = "exit" /\ outcome = "error" /\ idx <= Len(lines)) =>
            /\ status = 1
            /\ isfile(dir, args.unscramble)
    /\ (pc = "u_loop" /\ idx <= Len(lines)) =>
            isfile(dir, args.unscramble)

\* C8 as stated: the log is deleted only when the inverse rename of every
\* entry has succeeded; when one fails the run ends with an error and the log
\* file is still there; the log is there as long as entries are left.
C8_DeleteAfterAllAnyLog == Reversing => C8_Body

\* C8 amended: the same, for a log none of whose entries names the log file
\* itself.
C8_DeleteAfterAll == (Reversing /\ ~ SelfNaming) => C8_Body

\* the second entry of a two-entry log cannot be undone, after the first was
C8_Witness ==
    /\ Reversing /\ ~ SelfNaming
    /\ pc = "exit" /\ outcome = "error"
    /\ Len(lines) = 3 /\ idx = 3
    /\ Len(undone) = 1

\* every entry was undone and the log removed
C8_WitnessOk ==
    /\ Reversing /\ ~ SelfNaming
    /\ pc = "exit" /\ outcome = "ok" /\ Len(undone) = 2

\* the orders in which n entry lines can be replayed
Perms(n) == {p \in [1..n -> 1..n] : \A i, j \in 1..n : p[i] = p[j] => i = j}

\* replaying the entries of the log just written, in any order, undoes every
\* rename and ends in one and the same directory
AnyOrderRestores ==
    LET entries == Tail(logbuf)
        n       == Len(entries)
    IN  \A p \in Perms(n) :
            LET r == Replay(dir, [i \in 1..n |-> entries[p[i]]])
            IN  /\ r.ok
                /\ Restored(r.dir)
                /\ r.dir = Replay(dir, entries).dir

Untouchable(n) ==
    \/ n \notin matched
    \/ dir0[n].kind = "dir"
    \/ n[1] = "."
    \/ ExtOf(n) \in ReservedExt
    \/ args.extension # <<>> /\ ExtOf(n) \notin NormExtensions(args.extension)

Frame ==
    /\ \A n \in DOMAIN dir0 : Untouchable(n) => n \in DOMAIN dir /\ dir[n] = dir0[n]
    /\ Ids(dir0) \subseteq Ids(dir)
    /\ \A m \in DOMAIN dir :
            dir[m].id \notin Ids(dir0) => m = logname /\ dir[m].id = logid

\* C10 as stated: whatever names random_name drew, after a scramble run every
\* entry outside the match set is the same file under the same name, the log
\* is the only new entry, and no file was replaced or lost.
C10_FrameAnyOutcome == (mode = "scramble" /\ pc = "exit") => Frame

\* C10 amended: the same, for the outcomes of random_name in which the
\* generated names are new.
C10_Frame == (mode = "scramble" /\ pc = "exit" /\ FreshNames) => Frame

\* a run with an extension filter that renamed two files and left a file of
\* another extension, a hidden file or a script alone
C10_Witness ==
    /\ ScrambleDone /\ FreshNames
    /\ args.extension # <<>>
    /\ Len(renames) = 2
    /\ DOMAIN dir0 \ matched # {}

=============================================================================
